---------------------------- MODULE Spec2Model ----------------------------
(***************************************************************************)
(* Buderus EMS data collector: the bus message codec (EmsMessage.cpp) and  *)
(* the per-connection request/response state machine of the command server *)
(* (CommandHandler.h).                                                     *)
(*                                                                         *)
(* A byte is an integer in 0..255.  A C++ vector index i is position i+1   *)
(* of the TLA+ sequence that models the vector.                            *)
(***************************************************************************)
EXTENDS Integers, Sequences, FiniteSets, TLC

VARIABLES
    pc,        \* position of the decoder: "idle", "constructed", "handled"
    raw,       \* the raw bytes handed to the receiving constructor
    msg,       \* the EmsMessage object: m_source, m_dest, m_type, m_offset, m_data
    sink,      \* the values handed to m_valueHandler, in order
    reads,     \* the m_data indices read by handle() and its parse routines
    routines,  \* the parse routines handle() has run, in order
    crashed,   \* TRUE when an out-of-bounds read ended the process
    npc,       \* position of the numeric constructor run: "input", "built"
    nin,       \* the bytes given to the numeric constructor
    nval,      \* the int `value` the numeric constructor computed
    epc,       \* position of the encode run: "args", "built", "sent", "received"
    eargs,     \* the arguments of the sending constructor
    emsg,      \* the EmsMessage object built for sending / decoded back
    wire,      \* the bytes getSendData() returned
    waiting,   \* CommandConnection::m_waitingForResponse
    counter,   \* CommandConnection::m_responseCounter
    timers,    \* armed deadline timers, each the sequence number it was armed for
    replies,   \* bus replies under way, each the sequence number it answers
    lines,     \* client lines read from the socket and not yet handled
    out,       \* responses written to the client socket, in order
    sent,      \* requests handed to the bus transport, in order
    events     \* history of the replies and expiries handled, each <<kind, sequence>>
               \* with kind "reply", "timeout", "stale reply" or "stale timer"

decVars  == <<pc, raw, msg, sink, reads, routines, crashed>>
numVars  == <<npc, nin, nval>>
encVars  == <<epc, eargs, emsg, wire>>
connVars == <<waiting, counter, timers, replies, lines, out, sent, events>>
vars     == <<decVars, numVars, encVars, connVars>>

-----------------------------------------------------------------------------
(* Bounds of the model *)

MaxOffset == 13     \* frame offsets 0..MaxOffset
MaxLen    == 26     \* payload lengths 0..MaxLen

-----------------------------------------------------------------------------
(* Bus constants (EmsProto, declared in EmsMessage.h).  The decoder depends *)
(* on the addresses only through their being distinct, and on addressUBA    *)
(* being 0x08, the source of the boiler frames.                             *)

addressUBA  == 8
addressBC10 == 9
addressPC   == 11
addressRC   == 16
addressWM10 == 17
addressMM10 == 33

ErrorRecordSize      == 12   \* sizeof(EmsProto::ErrorRecord)
SystemTimeRecordSize == 8    \* sizeof(EmsProto::SystemTimeRecord)

-----------------------------------------------------------------------------
(* Byte and int arithmetic *)

RECURSIVE Pow2(_)
Pow2(n) == IF n = 0 THEN 1 ELSE 2 * Pow2(n - 1)

\* (b & (1 << bit)) != 0
BitSet(b, bit) == (b \div Pow2(bit)) % 2 = 1

\* the range of a 32-bit two's-complement int
IntMax == 2147483647
IntMin == -2147483647 - 1

\* (value << 8) | b on an int, the bits shifted out being lost: the low 24 bits
\* of value become the high 24 bits of the result (a shift into the sign bit
\* wraps to the two's-complement value on every build)
ShlOr8(value, b) ==
    LET low24 == value % Pow2(24)
        top   == low24 \div Pow2(16)
        rest  == low24 % Pow2(16)
    IN  (IF top >= 128 THEN top - 256 ELSE top) * Pow2(24) + rest * 256 + b

\* value - s on an int, 0 <= s, wrapping around below IntMin
SubWrap(value, s) ==
    IF value < IntMin + s THEN (value - IntMin) + (IntMax - s) + 1 ELSE value - s

-----------------------------------------------------------------------------
(* Value model: EmsValue.  A value is [type, subtype, reading, v]; v is a   *)
(* sequence of integers whose meaning depends on the reading type:         *)
(*   Numeric      <<value, divider>>, the reading being value / divider    *)
(*   Boolean      <<1>> or <<0>>                                           *)
(*   Kennlinie    <<low, medium, high>>                                    *)
(*   Enumeration  <<value>>                                                *)
(*   Error        <<type, index>> \o the bytes of the ErrorRecord          *)
(*   SystemTime   the bytes of the SystemTimeRecord                        *)
(*   Formatted    the character codes of the string                        *)

\* the loop `value = (value << 8) | data[i]` on an int, from index i on
RECURSIVE Accumulate(_, _, _, _)
Accumulate(data, len, i, value) ==
    IF i >= len THEN value
    ELSE Accumulate(data, len, i + 1, ShlOr8(value, data[i + 1]))

\* `1 << n` on an int.  A shift by the width of int or more is undefined: sh is
\* what the build produces there (1 where the hardware masks the shift count,
\* 0 where it shifts everything out).
Shl1(n, sh) ==
    IF n < 31 THEN Pow2(n) ELSE sh

\* the int `value` of the numeric EmsValue constructor
Numerator(data, len, sh) ==
    LET value == Accumulate(data, len, 0, 0)
    IN  IF data[1] >= 128 THEN SubWrap(value, Shl1(len * 8, sh)) ELSE value

EmsValueNumeric(type, subType, data, len, divider, sh) ==
    [type |-> type, subtype |-> subType, reading |-> "Numeric",
     v |-> <<Numerator(data, len, sh), divider>>]

EmsValueBoolean(type, subType, value, bit) ==
    [type |-> type, subtype |-> subType, reading |-> "Boolean",
     v |-> <<IF BitSet(value, bit) THEN 1 ELSE 0>>]

EmsValueKennlinie(type, subType, low, medium, high) ==
    [type |-> type, subtype |-> subType, reading |-> "Kennlinie",
     v |-> <<low, medium, high>>]

EmsValueEnumeration(type, subType, value) ==
    [type |-> type, subtype |-> subType, reading |-> "Enumeration", v |-> <<value>>]

EmsValueError(type, subType, entryType, index, record) ==
    [type |-> type, subtype |-> subType, reading |-> "Error",
     v |-> <<entryType, index>> \o record]

EmsValueSystemTime(type, subType, record) ==
    [type |-> type, subtype |-> subType, reading |-> "SystemTime", v |-> record]

EmsValueFormatted(type, subType, str) ==
    [type |-> type, subtype |-> subType, reading |-> "Formatted", v |-> str]

\* operator<< of an int in base 10: the character codes of its digits
RECURSIVE ToDecimal(_)
ToDecimal(n) ==
    IF n < 10 THEN <<48 + n>> ELSE Append(ToDecimal(n \div 10), 48 + (n % 10))

-----------------------------------------------------------------------------
(* Message codec: construction *)

NoMessage == [source |-> 0, dest |-> 0, type |-> 0, offset |-> 0, data |-> <<>>]

\* EmsMessage(ValueHandler&, const std::vector<uint8_t>& data)
EmsMessageRecv(data) ==
    IF Len(data) >= 4
    THEN [source |-> data[1], dest |-> data[2], type |-> data[3], offset |-> data[4],
          data |-> SubSeq(data, 5, Len(data))]
    ELSE [source |-> 0, dest |-> 0, type |-> 0, offset |-> 0, data |-> data]

\* EmsMessage(dest, type, offset, data, expectResponse)
EmsMessageSend(dest, type, offset, data, expectResponse) ==
    [source |-> addressPC,
     \* dest | (expectResponse ? 0x80 : 0)
     dest   |-> IF expectResponse /\ ~BitSet(dest, 7) THEN dest + 128 ELSE dest,
     type   |-> type, offset |-> offset, data |-> data]

getSendData(m) == <<m.dest, m.type, m.offset>> \o m.data

-----------------------------------------------------------------------------
(* Message codec: windowed field access *)

\* the outcome of one step of a parse routine
Nothing    == [sink |-> <<>>, reads |-> {}, crashed |-> FALSE]
Emit(value, rd) == [sink |-> <<value>>, reads |-> rd, crashed |-> FALSE]
Crash(rd)  == [sink |-> <<>>, reads |-> rd, crashed |-> TRUE]
ReadOnly(rd) == [sink |-> <<>>, reads |-> rd, crashed |-> FALSE]

\* the sinks of steps i..n, one after the other
RECURSIVE SinkFrom(_, _, _)
SinkFrom(steps, i, n) ==
    IF i > n THEN <<>> ELSE steps[i].sink \o SinkFrom(steps, i + 1, n)

\* the steps of a routine one after the other; a crash ends the run
RunSteps(steps) ==
    LET crashes == {i \in 1..Len(steps) : steps[i].crashed}
        last    == IF crashes = {} THEN Len(steps)
                   ELSE CHOOSE i \in crashes : \A j \in crashes : i <= j
    IN  [sink    |-> SinkFrom(steps, 1, last),
         reads   |-> UNION {steps[i].reads : i \in 1..last},
         crashed |-> crashes # {}]

\* (the steps are evaluated once, then run)
Run(steps) == CHOOSE r \in {RunSteps(s) : s \in {steps}} : TRUE

\* EmsMessage::canAccess(offset, size)
canAccess(m, offset, size) ==
    offset >= m.offset /\ offset + size <= m.offset + Len(m.data)

InBounds(m, i) == 0 <= i /\ i < Len(m.data)

\* m_data.at(i) .. m_data.at(i + size - 1), reached through &m_data.at(i)
Bytes(m, i, size) == [k \in 1..size |-> m.data[i + k]]

\* m_data[i]: unchecked.  Outside the vector the read is undefined: ub.g[i] is
\* the byte it yields when the process survives; ub.crash says whether it does.
Idx(m, i, ub) == IF InBounds(m, i) THEN m.data[i + 1] ELSE ub.g[i]

\* (reads from the start of the payload whatever the field's offset)
parseNumericFromStart(m, offset, size, divider, type, subtype) ==
    IF canAccess(m, offset, size)
    THEN Emit(EmsValueNumeric(type, subtype, Bytes(m, 0, size), size, divider, 0),
              0 .. (size - 1))
    ELSE Nothing

parseNumeric(m, offset, size, divider, type, subtype) ==
    IF canAccess(m, offset, size)
    THEN Emit(EmsValueNumeric(type, subtype, Bytes(m, offset - m.offset, size),
                              size, divider, 0),
              (offset - m.offset) .. (offset - m.offset + size - 1))
    ELSE Nothing

parseBool(m, offset, bit, type, subtype) ==
    IF canAccess(m, offset, 1)
    THEN Emit(EmsValueBoolean(type, subtype, m.data[offset - m.offset + 1], bit),
              {offset - m.offset})
    ELSE Nothing

\* a block `if (canAccess(o, w)) { ... m_data[i] ... }` reading the indices idx
\* unchecked and emitting value
Unchecked(m, idx, ub, value) ==
    IF ub.crash /\ \E i \in idx : ~InBounds(m, i) THEN Crash(idx) ELSE Emit(value, idx)

-----------------------------------------------------------------------------
(* Message codec: the parse routines.  Each is the sequence of its steps.  *)

parseUBAMonitorFastMessage(m, ub) == Run(<<
    parseNumeric(m, 0, 1, 1, "SollTemp", "Kessel"),
    parseNumeric(m, 1, 2, 10, "IstTemp", "Kessel"),
    parseNumeric(m, 11, 2, 10, "IstTemp", "WW"),
    parseNumeric(m, 13, 2, 10, "IstTemp", "Ruecklauf"),
    parseNumeric(m, 3, 1, 1, "MaxLeistung", "None"),
    parseNumeric(m, 4, 1, 1, "MomLeistung", "None"),
    parseNumeric(m, 15, 2, 10, "Flammenstrom", "None"),
    parseNumeric(m, 17, 1, 10, "Systemdruck", "None"),
    IF canAccess(m, 18, 2)
    THEN Unchecked(m, {18, 19}, ub,
             EmsValueFormatted("ServiceCode", "None", <<Idx(m, 18, ub), Idx(m, 19, ub)>>))
    ELSE Nothing,
    IF canAccess(m, 20, 2)
    THEN Unchecked(m, {20, 21}, ub,
             EmsValueFormatted("FehlerCode", "None",
                 ToDecimal(Idx(m, 20, ub) * 256 + Idx(m, 21, ub))))
    ELSE Nothing,
    parseBool(m, 7, 0, "FlammeAktiv", "None"),
    parseBool(m, 7, 2, "BrennerAktiv", "None"),
    parseBool(m, 7, 3, "ZuendungAktiv", "None"),
    parseBool(m, 7, 5, "PumpeAktiv", "Kessel"),
    parseBool(m, 7, 6, "DreiWegeVentilAufWW", "None"),
    parseBool(m, 7, 7, "ZirkulationAktiv", "None") >>)

parseUBAMonitorSlowMessage(m) == Run(<<
    parseNumeric(m, 0, 2, 10, "IstTemp", "Aussen"),
    parseNumeric(m, 2, 2, 10, "IstTemp", "Kessel"),
    parseNumeric(m, 4, 2, 10, "IstTemp", "Abgas"),
    parseNumeric(m, 9, 1, 1, "PumpenModulation", "None"),
    parseNumeric(m, 10, 3, 1, "Brennerstarts", "None"),
    parseNumeric(m, 13, 3, 1, "BetriebsZeit", "None"),
    parseNumeric(m, 19, 3, 1, "HeizZeit", "None") >>)

parseUBAMonitorWWMessage(m, ub) == Run(<<
    parseNumeric(m, 0, 1, 1, "SollTemp", "WW"),
    parseNumeric(m, 1, 2, 10, "IstTemp", "WW"),
    parseNumeric(m, 10, 3, 1, "WarmwasserbereitungsZeit", "None"),
    parseNumeric(m, 13, 3, 1, "WarmwasserBereitungen", "None"),
    parseBool(m, 5, 0, "Tagbetrieb", "WW"),
    parseBool(m, 5, 1, "EinmalLadungAktiv", "WW"),
    parseBool(m, 5, 2, "DesinfektionAktiv", "WW"),
    parseBool(m, 5, 3, "WarmwasserBereitung", "None"),
    parseBool(m, 5, 4, "NachladungAktiv", "WW"),
    parseBool(m, 5, 5, "WarmwasserTempOK", "None"),
    parseBool(m, 7, 0, "Tagbetrieb", "Zirkulation"),
    parseBool(m, 7, 2, "ZirkulationAktiv", "None"),
    IF canAccess(m, 8, 1)
    THEN Unchecked(m, {8 - m.offset}, ub,
             EmsValueEnumeration("WWSystemType", "None", Idx(m, 8 - m.offset, ub)))
    ELSE Nothing >>)

parseUBAParameterWWMessage(m, ub) == Run(<<
    IF canAccess(m, 7, 1)
    THEN Unchecked(m, {7 - m.offset}, ub,
             EmsValueEnumeration("Schaltpunkte", "Zirkulation", Idx(m, 7 - m.offset, ub)))
    ELSE Nothing >>)

\* the first record boundary at or after m_offset
ErrorStartUnaligned(m) == m.offset

ErrorStart(m) ==
    IF m.offset % ErrorRecordSize # 0
    THEN ((m.offset \div ErrorRecordSize) + 1) * ErrorRecordSize
    ELSE m.offset

\* the while loop, from `start` on
RECURSIVE ErrorLoop(_, _)
ErrorLoop(m, start) ==
    IF canAccess(m, start, ErrorRecordSize)
    THEN <<Emit(EmsValueError("Fehler", "None", m.type, start \div ErrorRecordSize,
                              Bytes(m, start - m.offset, ErrorRecordSize)),
                (start - m.offset) .. (start - m.offset + ErrorRecordSize - 1))>>
         \o ErrorLoop(m, start + ErrorRecordSize)
    ELSE <<>>

parseUBAErrorMessage(m) == Run(ErrorLoop(m, ErrorStart(m)))

parseUBAParametersMessage(m) == Run(<<
    parseNumeric(m, 1, 1, 1, "SetTemp", "Kessel"),
    parseNumeric(m, 4, 1, 1, "EinschaltHysterese", "Kessel"),
    parseNumeric(m, 5, 1, 1, "AusschaltHysterese", "Kessel"),
    parseNumeric(m, 10, 1, 1, "MinModulation", "Kessel"),
    parseNumeric(m, 9, 1, 1, "MaxModulation", "Kessel"),
    parseNumeric(m, 6, 1, 1, "AntipendelZeit", "None"),
    parseNumeric(m, 8, 1, 1, "PumpenNachlaufZeit", "Kessel") >>)

parseRCTimeMessage(m) == Run(<<
    IF canAccess(m, 0, SystemTimeRecordSize)
    THEN Emit(EmsValueSystemTime("SystemZeit", "None", Bytes(m, 0, SystemTimeRecordSize)),
              0 .. (SystemTimeRecordSize - 1))
    ELSE Nothing >>)

parseRCOutdoorTempMessage(m) == Run(<<
    parseNumeric(m, 0, 1, 1, "GedaempfteTemp", "Aussen") >>)

parseRCHKMonitorMessage(m, ub, subtype) == Run(<<
    parseNumeric(m, 2, 1, 2, "SollTemp", "Raum"),
    parseNumeric(m, 3, 2, 10, "IstTemp", "Raum"),
    IF canAccess(m, 7, 3)
    THEN Unchecked(m, {7 - m.offset, 8 - m.offset, 9 - m.offset}, ub,
             EmsValueKennlinie("HKKennlinie", subtype, Idx(m, 7 - m.offset, ub),
                               Idx(m, 8 - m.offset, ub), Idx(m, 9 - m.offset, ub)))
    ELSE Nothing,
    parseNumeric(m, 14, 1, 1, "SollTemp", subtype),
    parseNumeric(m, 5, 1, 1, "EinschaltoptimierungsZeit", subtype),
    parseNumeric(m, 6, 1, 1, "AusschaltoptimierungsZeit", subtype),
    IF canAccess(m, 15, 1)
    THEN IF ~BitSet(Idx(m, 15 - m.offset, ub), 0)
         THEN Run(<<ReadOnly({15 - m.offset}),
                    parseNumeric(m, 10, 2, 100, "TemperaturAenderung", "Raum")>>)
         ELSE ReadOnly({15 - m.offset})
    ELSE Nothing,
    parseBool(m, 0, 2, "Automatikbetrieb", subtype),
    parseBool(m, 0, 0, "Ausschaltoptimierung", subtype),
    parseBool(m, 0, 1, "Einschaltoptimierung", subtype),
    parseBool(m, 0, 3, "WWVorrang", subtype),
    parseBool(m, 0, 4, "Estrichtrocknung", subtype),
    parseBool(m, 0, 5, "Ferien", subtype),
    parseBool(m, 0, 6, "Frostschutz", subtype),
    parseBool(m, 1, 0, "Sommerbetrieb", subtype),
    parseBool(m, 1, 1, "Tagbetrieb", subtype),
    parseBool(m, 1, 7, "Party", subtype),
    parseBool(m, 13, 4, "SchaltuhrEin", subtype) >>)

parseWMTemp1Message(m) == Run(<<
    parseNumeric(m, 0, 2, 10, "IstTemp", "HK1"),
    parseBool(m, 2, 2, "PumpeAktiv", "HK1") >>)

parseWMTemp2Message(m) == Run(<<
    parseNumeric(m, 0, 2, 10, "IstTemp", "HK1") >>)

parseMMTempMessage(m) == Run(<<
    parseNumeric(m, 0, 1, 1, "SollTemp", "HK2"),
    parseNumeric(m, 1, 2, 10, "IstTemp", "HK2"),
    parseNumeric(m, 3, 1, 1, "Mischersteuerung", "None"),
    parseBool(m, 3, 2, "PumpeAktiv", "HK2") >>)

-----------------------------------------------------------------------------
(* Message codec: EmsMessage::handle() *)

\* `!m_source && !m_dest && !m_type`: invalid packet
InvalidPacket(m) == m.source = 0 /\ m.dest = 0 /\ m.type = 0

\* `m_dest & 0x80`: polling request
PollingRequestNever(m) == FALSE

PollingRequest(m) == BitSet(m.dest, 7)

\* the inner switch of each device: the parse routines its case labels call
SwitchUBA(t) ==
    CASE t = 16 \/ t = 17 -> <<"parseUBAErrorMessage">>
      [] t = 22 -> <<"parseUBAParametersMessage">>
      [] t = 24 -> <<"parseUBAMonitorFastMessage">>
      [] t = 25 -> <<"parseUBAMonitorSlowMessage">>
      [] t = 51 -> <<"parseUBAParameterWWMessage">>
      [] t = 52 -> <<"parseUBAMonitorWWMessage">>
      [] OTHER -> <<>>

SwitchRC(t) ==
    CASE t = 6   -> <<"parseRCTimeMessage">>
      [] t = 62  -> <<"parseRCHKMonitorMessageHK1">>
      [] t = 72  -> <<"parseRCHKMonitorMessageHK2">>
      [] t = 163 -> <<"parseRCOutdoorTempMessage">>
      [] OTHER -> <<>>

SwitchWM10(t) ==
    CASE t = 156 -> <<"parseWMTemp1Message">>
      [] t = 30  -> <<"parseWMTemp2Message">>
      [] OTHER -> <<>>

SwitchMM10(t) ==
    CASE t = 171 -> <<"parseMMTempMessage">>
      [] OTHER -> <<>>

\* the outer switch on m_source.  The addressRC case does not end in a break:
\* control falls through into the addressWM10 case.
Dispatch(m) ==
    CASE m.source = addressUBA  -> SwitchUBA(m.type)
      [] m.source = addressBC10 -> <<>>
      [] m.source = addressRC   -> SwitchRC(m.type) \o SwitchWM10(m.type)
      [] m.source = addressWM10 -> SwitchWM10(m.type)
      [] m.source = addressMM10 -> SwitchMM10(m.type)
      [] OTHER -> <<>>

Routine(name, m, ub) ==
    CASE name = "parseUBAErrorMessage"       -> parseUBAErrorMessage(m)
      [] name = "parseUBAParametersMessage"  -> parseUBAParametersMessage(m)
      [] name = "parseUBAMonitorFastMessage" -> parseUBAMonitorFastMessage(m, ub)
      [] name = "parseUBAMonitorSlowMessage" -> parseUBAMonitorSlowMessage(m)
      [] name = "parseUBAParameterWWMessage" -> parseUBAParameterWWMessage(m, ub)
      [] name = "parseUBAMonitorWWMessage"   -> parseUBAMonitorWWMessage(m, ub)
      [] name = "parseRCTimeMessage"         -> parseRCTimeMessage(m)
      [] name = "parseRCHKMonitorMessageHK1" -> parseRCHKMonitorMessage(m, ub, "HK1")
      [] name = "parseRCHKMonitorMessageHK2" -> parseRCHKMonitorMessage(m, ub, "HK2")
      [] name = "parseRCOutdoorTempMessage"  -> parseRCOutdoorTempMessage(m)
      [] name = "parseWMTemp1Message"        -> parseWMTemp1Message(m)
      [] name = "parseWMTemp2Message"        -> parseWMTemp2Message(m)
      [] name = "parseMMTempMessage"         -> parseMMTempMessage(m)

\* the routines of `names` one after the other; a crash ends the run
RunNamed(names, steps) ==
    LET crashes == {i \in 1..Len(names) : steps[i].crashed}
        last    == IF crashes = {} THEN Len(names)
                   ELSE CHOOSE i \in crashes : \A j \in crashes : i <= j
        r       == RunSteps(steps)
    IN  [sink |-> r.sink, reads |-> r.reads, crashed |-> r.crashed,
         routines |-> SubSeq(names, 1, last)]

RunRoutines(names, m, ub) ==
    CHOOSE r \in {RunNamed(n, s) : n \in {names},
                                   s \in {[i \in 1..Len(names) |-> Routine(names[i], m, ub)]}} :
        TRUE

\* handle() on a message built by the receiving constructor (m_valueHandler set)
handle(m, ub) ==
    IF InvalidPacket(m) \/ PollingRequest(m)
    THEN RunRoutines(<<>>, m, ub)
    ELSE RunRoutines(Dispatch(m), m, ub)

-----------------------------------------------------------------------------
(* Inputs of the decoder *)

\* two logical records; the payload of a frame is a window of one of them
Rec(p, j) ==
    IF p = 1
    THEN (IF j = 0 THEN 90 ELSE IF j = 1 THEN 1 ELSE IF j = 2 THEN 244
          ELSE (j * 37 + 11) % 256)
    ELSE (250 + 251 * j) % 256

Records == {1, 2}

Window(p, offset, n) == [i \in 1..n |-> Rec(p, offset + i - 1)]

Sources == {0, addressUBA, addressBC10, addressRC, addressWM10, addressMM10}
Dests   == {0, addressPC, addressPC + 128}
Types   == {0, 6, 7, 16, 17, 22, 24, 25, 26, 28, 30, 41, 51, 52, 53, 62, 72,
            156, 157, 162, 163, 171, 172, 255}

\* a full frame: header and a window of a logical record
Frame(s, d, t, o, n, p) == <<s, d, t, o>> \o Window(p, o, n)

\* a frame cut short of a full header
ShortFrame(s, d, t, k) == SubSeq(<<s, d, t>>, 1, k)

\* outcomes of the undefined reads of m_data[18] .. m_data[21]
GarbageBytes == {0, 255}
NoUB == [crash |-> FALSE, g |-> [i \in 18..21 |-> 0]]
UBOutcomes ==
    [crash : {FALSE}, g : [18..21 -> GarbageBytes]] \cup {[crash |-> TRUE, g |-> NoUB.g]}

ReadsOutside(m) == \E r \in {handle(m, NoUB)} : \E i \in r.reads : ~InBounds(m, i)

-----------------------------------------------------------------------------
(* The decoder as a state machine *)

DecInit ==
    /\ pc = "idle"
    /\ raw = <<>>
    /\ msg = NoMessage
    /\ sink = <<>>
    /\ reads = {}
    /\ routines = <<>>
    /\ crashed = FALSE

\* the transport delivers a frame: EmsMessage(valueHandler, data)
Construct(data) ==
    /\ raw' = data
    /\ msg' = EmsMessageRecv(data)
    /\ pc' = "constructed"
    /\ UNCHANGED <<sink, reads, routines, crashed>>

Receive ==
    /\ pc = "idle"
    /\ \E s \in Sources, d \in Dests, t \in Types, o \in 0..MaxOffset,
          n \in 0..MaxLen, p \in Records :
         Construct(Frame(s, d, t, o, n, p))

ReceiveShort ==
    /\ pc = "idle"
    /\ \E s \in Sources, d \in Dests, t \in Types, k \in 0..3 :
         Construct(ShortFrame(s, d, t, k))

\* EmsMessage::handle()
Handle ==
    /\ pc = "constructed"
    /\ \E ub \in (IF ReadsOutside(msg) THEN UBOutcomes ELSE {NoUB}) :
         \E r \in {handle(msg, ub)} :
             /\ sink' = r.sink
             /\ reads' = r.reads
             /\ routines' = r.routines
             /\ crashed' = r.crashed
    /\ pc' = "handled"
    /\ UNCHANGED <<raw, msg>>

\* the message object is dropped after handle()
Discard ==
    /\ pc = "handled"
    /\ ~crashed
    /\ pc' = "idle"
    /\ raw' = <<>>
    /\ msg' = NoMessage
    /\ sink' = <<>>
    /\ reads' = {}
    /\ routines' = <<>>
    /\ UNCHANGED crashed

NumIdle  == npc = "input" /\ nin = <<>> /\ nval = 0
EncIdle  == epc = "args" /\ eargs = <<>> /\ emsg = NoMessage /\ wire = <<>>
ConnIdle ==
    /\ waiting = FALSE /\ counter = 0 /\ timers = {} /\ replies = {}
    /\ lines = <<>> /\ out = <<>> /\ sent = <<>> /\ events = <<>>

Init == DecInit /\ NumIdle /\ EncIdle /\ ConnIdle

Next ==
    \/ Receive /\ UNCHANGED <<numVars, encVars, connVars>>
    \/ ReceiveShort /\ UNCHANGED <<numVars, encVars, connVars>>
    \/ Handle  /\ UNCHANGED <<numVars, encVars, connVars>>
    \/ Discard /\ UNCHANGED <<numVars, encVars, connVars>>

Spec == Init /\ [][Next]_vars

-----------------------------------------------------------------------------
(* The numeric constructor on its own: every width the value model allows  *)

Widths   == 1..4
NumBytes == {0, 1, 127, 128, 254, 255}
ShiftOutcomes == {0, 1}

NumInit ==
    /\ npc = "input"
    /\ nin \in UNION {[1..w -> NumBytes] : w \in Widths}
    /\ nval = 0

\* EmsValue(type, subType, data, len, divider): the int `value`
NumConstruct ==
    /\ npc = "input"
    /\ \E sh \in ShiftOutcomes : nval' = Numerator(nin, Len(nin), sh)
    /\ npc' = "built"
    /\ UNCHANGED nin

InitNum == DecInit /\ NumInit /\ EncIdle /\ ConnIdle
NextNum == NumConstruct /\ UNCHANGED <<decVars, encVars, connVars>>
SpecNum == InitNum /\ [][NextNum]_vars

-----------------------------------------------------------------------------
(* Encoding a command and decoding the frame the transport produces        *)

EncDests    == {0, 8, 16, 127, 128, 136, 255}
EncTypes    == {0, 16, 255}
EncOffsets  == {0, 1, 255}
EncBytes    == {0, 128, 255}
MaxPayload  == 2

EncInit ==
    /\ epc = "args"
    /\ eargs \in [dest : EncDests, type : EncTypes, offset : EncOffsets,
                  data : UNION {[1..n -> EncBytes] : n \in 0..MaxPayload},
                  expectResponse : BOOLEAN]
    /\ emsg = NoMessage
    /\ wire = <<>>

\* EmsMessage(dest, type, offset, data, expectResponse)
EncConstruct ==
    /\ epc = "args"
    /\ emsg' = EmsMessageSend(eargs.dest, eargs.type, eargs.offset, eargs.data,
                              eargs.expectResponse)
    /\ epc' = "built"
    /\ UNCHANGED <<eargs, wire>>

\* getSendData()
EncGetSendData ==
    /\ epc = "built"
    /\ wire' = getSendData(emsg)
    /\ epc' = "sent"
    /\ UNCHANGED <<eargs, emsg>>

\* the transport puts the source byte in front; the receiving constructor decodes
EncLoopback ==
    /\ epc = "sent"
    /\ emsg' = EmsMessageRecv(<<addressPC>> \o wire)
    /\ epc' = "received"
    /\ UNCHANGED <<eargs, wire>>

InitEnc == DecInit /\ NumIdle /\ EncInit /\ ConnIdle
NextEnc ==
    \/ EncConstruct   /\ UNCHANGED <<decVars, numVars, connVars>>
    \/ EncGetSendData /\ UNCHANGED <<decVars, numVars, connVars>>
    \/ EncLoopback    /\ UNCHANGED <<decVars, numVars, connVars>>
SpecEnc == InitEnc /\ [][NextEnc]_vars

-----------------------------------------------------------------------------
(* Command server: one connection (CommandConnection)                      *)
(*                                                                         *)
(* A client line is one of                                                 *)
(*   "query"    a command whose bus message expects a response             *)
(*   "set"      a command whose bus message expects none                   *)
(*   "badcmd"   an unrecognized verb                                       *)
(*   "badargs"  a recognized verb with malformed arguments                 *)
(* A request is known by the value m_responseCounter takes when it is      *)
(* issued.                                                                 *)

MaxLines == 3      \* client lines over the life of the connection

LineKinds == {"query", "set", "badcmd", "badargs"}

\* respond(response): the response and a newline are written to the socket
respondTwice(o, response) == o \o <<response, "\n">> \o <<response, "\n">>

respond(o, response) == o \o <<response, "\n">>

\* the responses written so far, without their newlines
Responses == [i \in 1..(Len(out) \div 2) |-> out[2 * i - 1]]

\* the client lines handled so far: each either sent a request or was refused
Handled ==
    Len(sent) + Cardinality({i \in 1..Len(Responses) :
                  Responses[i] \in {"ERR invalid command", "ERR invalid arguments"}})

ConnInit ==
    /\ waiting = FALSE
    /\ counter = 0
    /\ timers = {}
    /\ replies = {}
    /\ lines = <<>>
    /\ out = <<>>
    /\ sent = <<>>
    /\ events = <<>>

\* the client writes a line; startRead() picks it up
ClientLine ==
    /\ Len(lines) + Handled < MaxLines
    /\ \E kind \in LineKinds : lines' = Append(lines, kind)
    /\ UNCHANGED <<waiting, counter, timers, replies, out, sent, events>>

\* scheduleResponseTimeout(): the flag is set and the deadline timer armed
scheduleResponseTimeout(seq) ==
    /\ waiting' = TRUE
    /\ timers' = timers \cup {seq}

\* handleRequest() on the next line, with handleCommand() and sendCommand().
\* While a response is awaited the line stays queued.
handleRequest ==
    /\ lines # <<>>
    /\ ~waiting
    /\ lines' = Tail(lines)
    /\ CASE Head(lines) = "badcmd" ->
              /\ out' = respond(out, "ERR invalid command")
              /\ UNCHANGED <<waiting, counter, timers, replies, sent, events>>
         [] Head(lines) = "badargs" ->
              /\ out' = respond(out, "ERR invalid arguments")
              /\ UNCHANGED <<waiting, counter, timers, replies, sent, events>>
         [] Head(lines) = "set" ->
              /\ sent' = Append(sent, <<"set", 0>>)
              /\ out' = respond(out, "OK")
              /\ UNCHANGED <<waiting, counter, timers, replies, events>>
         [] Head(lines) = "query" ->
              /\ counter' = counter + 1
              /\ scheduleResponseTimeout(counter + 1)
              /\ sent' = Append(sent, <<"query", counter + 1>>)
              \* the device answers, sooner or later, or stays silent
              /\ replies' \in {replies, replies \cup {counter + 1}}
              /\ UNCHANGED <<out, events>>

\* handlePcMessage(message): a bus reply to request seq reaches the connection
handlePcMessageStaleAccepted(seq) ==
    /\ seq \in replies
    /\ replies' = replies \ {seq}
    /\ IF waiting
       THEN /\ timers' \in {timers \ {counter}, timers}
            /\ out' = respond(out, "data")
            /\ waiting' = FALSE
            /\ counter' = counter + 1
            /\ events' = Append(events, <<"reply", seq>>)
       ELSE /\ events' = Append(events, <<"stale reply", seq>>)
            /\ UNCHANGED <<waiting, counter, timers, out>>
    /\ UNCHANGED <<lines, sent>>

handlePcMessage(seq) ==
    /\ seq \in replies
    /\ replies' = replies \ {seq}
    /\ IF waiting /\ seq = counter
       THEN \* cancel() stops the timer unless its handler is already queued
            /\ timers' \in {timers \ {seq}, timers}
            /\ out' = respond(out, "data")
            /\ waiting' = FALSE
            /\ counter' = counter + 1
            /\ events' = Append(events, <<"reply", seq>>)
       ELSE /\ events' = Append(events, <<"stale reply", seq>>)
            /\ UNCHANGED <<waiting, counter, timers, out>>
    /\ UNCHANGED <<lines, sent>>

\* responseTimeout(error): the deadline timer armed for request seq fires
responseTimeout(seq) ==
    /\ seq \in timers
    /\ timers' = timers \ {seq}
    /\ IF waiting /\ seq = counter
       THEN /\ out' = respond(out, "ERR timeout")
            /\ waiting' = FALSE
            /\ counter' = counter + 1
            /\ events' = Append(events, <<"timeout", seq>>)
       ELSE /\ events' = Append(events, <<"stale timer", seq>>)
            /\ UNCHANGED <<waiting, counter, out>>
    /\ UNCHANGED <<replies, lines, sent>>

BusReply == \E seq \in replies : handlePcMessage(seq)
Expire   == \E seq \in timers : responseTimeout(seq)

InitConn == DecInit /\ NumIdle /\ EncIdle /\ ConnInit
NextConn ==
    \/ ClientLine    /\ UNCHANGED <<decVars, numVars, encVars>>
    \/ handleRequest /\ UNCHANGED <<decVars, numVars, encVars>>
    \/ BusReply      /\ UNCHANGED <<decVars, numVars, encVars>>
    \/ Expire        /\ UNCHANGED <<decVars, numVars, encVars>>
SpecConn == InitConn /\ [][NextConn]_vars

\* the event loop runs every ready handler: an armed timer fires, a read line
\* is handled, a reply under way is delivered
SpecConnFair ==
    /\ SpecConn
    /\ WF_vars(Expire /\ UNCHANGED <<decVars, numVars, encVars>>)
    /\ WF_vars(handleRequest /\ UNCHANGED <<decVars, numVars, encVars>>)
    /\ WF_vars(BusReply /\ UNCHANGED <<decVars, numVars, encVars>>)

-----------------------------------------------------------------------------
(* The field tables of the parse routines: for each field its logical      *)
(* offset o, width w, kind, divider or bit p, Type and SubType, in the     *)
(* order the routine lists them                                            *)

FieldTable(name) ==
    CASE name = "parseUBAMonitorFastMessage" ->
        <<
        [kind |-> "num", o |-> 0, w |-> 1, p |-> 1, type |-> "SollTemp", subtype |-> "Kessel"],
        [kind |-> "num", o |-> 1, w |-> 2, p |-> 10, type |-> "IstTemp", subtype |-> "Kessel"],
        [kind |-> "num", o |-> 11, w |-> 2, p |-> 10, type |-> "IstTemp", subtype |-> "WW"],
        [kind |-> "num", o |-> 13, w |-> 2, p |-> 10, type |-> "IstTemp", subtype |-> "Ruecklauf"],
        [kind |-> "num", o |-> 3, w |-> 1, p |-> 1, type |-> "MaxLeistung", subtype |-> "None"],
        [kind |-> "num", o |-> 4, w |-> 1, p |-> 1, type |-> "MomLeistung", subtype |-> "None"],
        [kind |-> "num", o |-> 15, w |-> 2, p |-> 10, type |-> "Flammenstrom", subtype |-> "None"],
        [kind |-> "num", o |-> 17, w |-> 1, p |-> 10, type |-> "Systemdruck", subtype |-> "None"],
        [kind |-> "text", o |-> 18, w |-> 2, p |-> 0, type |-> "ServiceCode", subtype |-> "None"],
        [kind |-> "dec", o |-> 20, w |-> 2, p |-> 0, type |-> "FehlerCode", subtype |-> "None"],
        [kind |-> "bool", o |-> 7, w |-> 1, p |-> 0, type |-> "FlammeAktiv", subtype |-> "None"],
        [kind |-> "bool", o |-> 7, w |-> 1, p |-> 2, type |-> "BrennerAktiv", subtype |-> "None"],
        [kind |-> "bool", o |-> 7, w |-> 1, p |-> 3, type |-> "ZuendungAktiv", subtype |-> "None"],
        [kind |-> "bool", o |-> 7, w |-> 1, p |-> 5, type |-> "PumpeAktiv", subtype |-> "Kessel"],
        [kind |-> "bool", o |-> 7, w |-> 1, p |-> 6, type |-> "DreiWegeVentilAufWW", subtype |-> "None"],
        [kind |-> "bool", o |-> 7, w |-> 1, p |-> 7, type |-> "ZirkulationAktiv", subtype |-> "None"] >>
      [] name = "parseUBAMonitorSlowMessage" ->
        <<
        [kind |-> "num", o |-> 0, w |-> 2, p |-> 10, type |-> "IstTemp", subtype |-> "Aussen"],
        [kind |-> "num", o |-> 2, w |-> 2, p |-> 10, type |-> "IstTemp", subtype |-> "Kessel"],
        [kind |-> "num", o |-> 4, w |-> 2, p |-> 10, type |-> "IstTemp", subtype |-> "Abgas"],
        [kind |-> "num", o |-> 9, w |-> 1, p |-> 1, type |-> "PumpenModulation", subtype |-> "None"],
        [kind |-> "num", o |-> 10, w |-> 3, p |-> 1, type |-> "Brennerstarts", subtype |-> "None"],
        [kind |-> "num", o |-> 13, w |-> 3, p |-> 1, type |-> "BetriebsZeit", subtype |-> "None"],
        [kind |-> "num", o |-> 19, w |-> 3, p |-> 1, type |-> "HeizZeit", subtype |-> "None"] >>
      [] name = "parseUBAMonitorWWMessage" ->
        <<
        [kind |-> "num", o |-> 0, w |-> 1, p |-> 1, type |-> "SollTemp", subtype |-> "WW"],
        [kind |-> "num", o |-> 1, w |-> 2, p |-> 10, type |-> "IstTemp", subtype |-> "WW"],
        [kind |-> "num", o |-> 10, w |-> 3, p |-> 1, type |-> "WarmwasserbereitungsZeit", subtype |-> "None"],
        [kind |-> "num", o |-> 13, w |-> 3, p |-> 1, type |-> "WarmwasserBereitungen", subtype |-> "None"],
        [kind |-> "bool", o |-> 5, w |-> 1, p |-> 0, type |-> "Tagbetrieb", subtype |-> "WW"],
        [kind |-> "bool", o |-> 5, w |-> 1, p |-> 1, type |-> "EinmalLadungAktiv", subtype |-> "WW"],
        [kind |-> "bool", o |-> 5, w |-> 1, p |-> 2, type |-> "DesinfektionAktiv", subtype |-> "WW"],
        [kind |-> "bool", o |-> 5, w |-> 1, p |-> 3, type |-> "WarmwasserBereitung", subtype |-> "None"],
        [kind |-> "bool", o |-> 5, w |-> 1, p |-> 4, type |-> "NachladungAktiv", subtype |-> "WW"],
        [kind |-> "bool", o |-> 5, w |-> 1, p |-> 5, type |-> "WarmwasserTempOK", subtype |-> "None"],
        [kind |-> "bool", o |-> 7, w |-> 1, p |-> 0, type |-> "Tagbetrieb", subtype |-> "Zirkulation"],
        [kind |-> "bool", o |-> 7, w |-> 1, p |-> 2, type |-> "ZirkulationAktiv", subtype |-> "None"],
        [kind |-> "enum", o |-> 8, w |-> 1, p |-> 0, type |-> "WWSystemType", subtype |-> "None"] >>
      [] name = "parseUBAParameterWWMessage" ->
        <<
        [kind |-> "enum", o |-> 7, w |-> 1, p |-> 0, type |-> "Schaltpunkte", subtype |-> "Zirkulation"] >>
      [] name = "parseUBAParametersMessage" ->
        <<
        [kind |-> "num", o |-> 1, w |-> 1, p |-> 1, type |-> "SetTemp", subtype |-> "Kessel"],
        [kind |-> "num", o |-> 4, w |-> 1, p |-> 1, type |-> "EinschaltHysterese", subtype |-> "Kessel"],
        [kind |-> "num", o |-> 5, w |-> 1, p |-> 1, type |-> "AusschaltHysterese", subtype |-> "Kessel"],
        [kind |-> "num", o |-> 10, w |-> 1, p |-> 1, type |-> "MinModulation", subtype |-> "Kessel"],
        [kind |-> "num", o |-> 9, w |-> 1, p |-> 1, type |-> "MaxModulation", subtype |-> "Kessel"],
        [kind |-> "num", o |-> 6, w |-> 1, p |-> 1, type |-> "AntipendelZeit", subtype |-> "None"],
        [kind |-> "num", o |-> 8, w |-> 1, p |-> 1, type |-> "PumpenNachlaufZeit", subtype |-> "Kessel"] >>
      [] name = "parseRCOutdoorTempMessage" ->
        <<
        [kind |-> "num", o |-> 0, w |-> 1, p |-> 1, type |-> "GedaempfteTemp", subtype |-> "Aussen"] >>
      [] name = "parseRCHKMonitorMessageHK1" ->
        <<
        [kind |-> "num", o |-> 2, w |-> 1, p |-> 2, type |-> "SollTemp", subtype |-> "Raum"],
        [kind |-> "num", o |-> 3, w |-> 2, p |-> 10, type |-> "IstTemp", subtype |-> "Raum"],
        [kind |-> "curve", o |-> 7, w |-> 3, p |-> 0, type |-> "HKKennlinie", subtype |-> "HK1"],
        [kind |-> "num", o |-> 14, w |-> 1, p |-> 1, type |-> "SollTemp", subtype |-> "HK1"],
        [kind |-> "num", o |-> 5, w |-> 1, p |-> 1, type |-> "EinschaltoptimierungsZeit", subtype |-> "HK1"],
        [kind |-> "num", o |-> 6, w |-> 1, p |-> 1, type |-> "AusschaltoptimierungsZeit", subtype |-> "HK1"],
        [kind |-> "num", o |-> 10, w |-> 2, p |-> 100, type |-> "TemperaturAenderung", subtype |-> "Raum"],
        [kind |-> "bool", o |-> 0, w |-> 1, p |-> 2, type |-> "Automatikbetrieb", subtype |-> "HK1"],
        [kind |-> "bool", o |-> 0, w |-> 1, p |-> 0, type |-> "Ausschaltoptimierung", subtype |-> "HK1"],
        [kind |-> "bool", o |-> 0, w |-> 1, p |-> 1, type |-> "Einschaltoptimierung", subtype |-> "HK1"],
        [kind |-> "bool", o |-> 0, w |-> 1, p |-> 3, type |-> "WWVorrang", subtype |-> "HK1"],
        [kind |-> "bool", o |-> 0, w |-> 1, p |-> 4, type |-> "Estrichtrocknung", subtype |-> "HK1"],
        [kind |-> "bool", o |-> 0, w |-> 1, p |-> 5, type |-> "Ferien", subtype |-> "HK1"],
        [kind |-> "bool", o |-> 0, w |-> 1, p |-> 6, type |-> "Frostschutz", subtype |-> "HK1"],
        [kind |-> "bool", o |-> 1, w |-> 1, p |-> 0, type |-> "Sommerbetrieb", subtype |-> "HK1"],
        [kind |-> "bool", o |-> 1, w |-> 1, p |-> 1, type |-> "Tagbetrieb", subtype |-> "HK1"],
        [kind |-> "bool", o |-> 1, w |-> 1, p |-> 7, type |-> "Party", subtype |-> "HK1"],
        [kind |-> "bool", o |-> 13, w |-> 1, p |-> 4, type |-> "SchaltuhrEin", subtype |-> "HK1"] >>
      [] name = "parseRCHKMonitorMessageHK2" ->
        <<
        [kind |-> "num", o |-> 2, w |-> 1, p |-> 2, type |-> "SollTemp", subtype |-> "Raum"],
        [kind |-> "num", o |-> 3, w |-> 2, p |-> 10, type |-> "IstTemp", subtype |-> "Raum"],
        [kind |-> "curve", o |-> 7, w |-> 3, p |-> 0, type |-> "HKKennlinie", subtype |-> "HK2"],
        [kind |-> "num", o |-> 14, w |-> 1, p |-> 1, type |-> "SollTemp", subtype |-> "HK2"],
        [kind |-> "num", o |-> 5, w |-> 1, p |-> 1, type |-> "EinschaltoptimierungsZeit", subtype |-> "HK2"],
        [kind |-> "num", o |-> 6, w |-> 1, p |-> 1, type |-> "AusschaltoptimierungsZeit", subtype |-> "HK2"],
        [kind |-> "num", o |-> 10, w |-> 2, p |-> 100, type |-> "TemperaturAenderung", subtype |-> "Raum"],
        [kind |-> "bool", o |-> 0, w |-> 1, p |-> 2, type |-> "Automatikbetrieb", subtype |-> "HK2"],
        [kind |-> "bool", o |-> 0, w |-> 1, p |-> 0, type |-> "Ausschaltoptimierung", subtype |-> "HK2"],
        [kind |-> "bool", o |-> 0, w |-> 1, p |-> 1, type |-> "Einschaltoptimierung", subtype |-> "HK2"],
        [kind |-> "bool", o |-> 0, w |-> 1, p |-> 3, type |-> "WWVorrang", subtype |-> "HK2"],
        [kind |-> "bool", o |-> 0, w |-> 1, p |-> 4, type |-> "Estrichtrocknung", subtype |-> "HK2"],
        [kind |-> "bool", o |-> 0, w |-> 1, p |-> 5, type |-> "Ferien", subtype |-> "HK2"],
        [kind |-> "bool", o |-> 0, w |-> 1, p |-> 6, type |-> "Frostschutz", subtype |-> "HK2"],
        [kind |-> "bool", o |-> 1, w |-> 1, p |-> 0, type |-> "Sommerbetrieb", subtype |-> "HK2"],
        [kind |-> "bool", o |-> 1, w |-> 1, p |-> 1, type |-> "Tagbetrieb", subtype |-> "HK2"],
        [kind |-> "bool", o |-> 1, w |-> 1, p |-> 7, type |-> "Party", subtype |-> "HK2"],
        [kind |-> "bool", o |-> 13, w |-> 1, p |-> 4, type |-> "SchaltuhrEin", subtype |-> "HK2"] >>
      [] name = "parseWMTemp1Message" ->
        <<
        [kind |-> "num", o |-> 0, w |-> 2, p |-> 10, type |-> "IstTemp", subtype |-> "HK1"],
        [kind |-> "bool", o |-> 2, w |-> 1, p |-> 2, type |-> "PumpeAktiv", subtype |-> "HK1"] >>
      [] name = "parseWMTemp2Message" ->
        <<
        [kind |-> "num", o |-> 0, w |-> 2, p |-> 10, type |-> "IstTemp", subtype |-> "HK1"] >>
      [] name = "parseMMTempMessage" ->
        <<
        [kind |-> "num", o |-> 0, w |-> 1, p |-> 1, type |-> "SollTemp", subtype |-> "HK2"],
        [kind |-> "num", o |-> 1, w |-> 2, p |-> 10, type |-> "IstTemp", subtype |-> "HK2"],
        [kind |-> "num", o |-> 3, w |-> 1, p |-> 1, type |-> "Mischersteuerung", subtype |-> "None"],
        [kind |-> "bool", o |-> 3, w |-> 1, p |-> 2, type |-> "PumpeAktiv", subtype |-> "HK2"] >>
      [] OTHER -> <<>>

-----------------------------------------------------------------------------
(* What the specification asks of the decoder *)

\* the unsigned value of big-endian bytes
RECURSIVE UnsignedBE(_)
UnsignedBE(b) ==
    IF b = <<>> THEN 0 ELSE b[1] * Pow2(8 * (Len(b) - 1)) + UnsignedBE(Tail(b))

\* the two's-complement signed value, of width 8 * Len(b), of big-endian bytes
SignedBE(b) ==
    (IF b[1] >= 128 THEN b[1] - 256 ELSE b[1]) * Pow2(8 * (Len(b) - 1))
        + UnsignedBE(Tail(b))

\* the logical range [o, o + w) lies inside the window of the frame
InWindow(m, o, w) == m.offset <= o /\ o + w <= m.offset + Len(m.data)

\* the payload bytes that hold the logical bytes o .. o + w - 1
LogicalBytes(m, o, w) == [k \in 1..w |-> m.data[o - m.offset + k]]

\* the value of a field, computed from the payload bytes that hold it
ExpectedValue(row, m) ==
    LET b == LogicalBytes(m, row.o, row.w)
        v == CASE row.kind = "num"   -> <<"Numeric", <<SignedBE(b), row.p>>>>
               [] row.kind = "bool"  -> <<"Boolean", <<(b[1] \div Pow2(row.p)) % 2>>>>
               [] row.kind = "text"  -> <<"Formatted", b>>
               [] row.kind = "dec"   -> <<"Formatted", ToDecimal(b[1] * 256 + b[2])>>
               [] row.kind = "enum"  -> <<"Enumeration", b>>
               [] row.kind = "curve" -> <<"Kennlinie", b>>
    IN  [type |-> row.type, subtype |-> row.subtype, reading |-> v[1], v |-> v[2]]

\* the values of the fields of `table` from row i on that lie inside the window
RECURSIVE ExpectedFrom(_, _, _)
ExpectedFrom(table, m, i) ==
    IF i > Len(table) THEN <<>>
    ELSE (IF InWindow(m, table[i].o, table[i].w)
          THEN <<ExpectedValue(table[i], m)>> ELSE <<>>)
         \o ExpectedFrom(table, m, i + 1)

FullHeader == Len(raw) >= 4

\* the device whose case of the switch on m_source holds the routine's call
RoutineDevice(name) ==
    CASE name \in {"parseUBAErrorMessage", "parseUBAParametersMessage",
                   "parseUBAMonitorFastMessage", "parseUBAMonitorSlowMessage",
                   "parseUBAParameterWWMessage", "parseUBAMonitorWWMessage"} -> addressUBA
      [] name \in {"parseRCTimeMessage", "parseRCHKMonitorMessageHK1",
                   "parseRCHKMonitorMessageHK2", "parseRCOutdoorTempMessage"} -> addressRC
      [] name \in {"parseWMTemp1Message", "parseWMTemp2Message"} -> addressWM10
      [] name = "parseMMTempMessage" -> addressMM10

\* the parse routine of the pair (source, type), if it has one
OwnRoutine(source, type) ==
    CASE source = addressUBA  -> SwitchUBA(type)
      [] source = addressRC   -> SwitchRC(type)
      [] source = addressWM10 -> SwitchWM10(type)
      [] source = addressMM10 -> SwitchMM10(type)
      [] OTHER -> <<>>

-----------------------------------------------------------------------------
(* Claims about the decoder, under Spec *)

\* C1: every payload access made by handle() and the parse routines it calls
\* uses an index i with 0 <= i < len(payload), for every offset and length.
C1_ReadsInsidePayload ==
    pc = "handled" => \A i \in reads : InBounds(msg, i)

\* C1, the case the code breaks: a fast-monitor frame with offset > 0 whose
\* window covers logical bytes 18..19 has been handled.
C1_OffsetWindowHandled ==
    /\ pc = "handled"
    /\ routines = <<"parseUBAMonitorFastMessage">>
    /\ msg.offset > 0
    /\ InWindow(msg, 18, 2)

\* C2: handle() runs at most one parse routine, only for a frame whose source
\* is the routine's device, and a frame whose (source, type) pair has no
\* routine of its own emits nothing.
C2_OneRoutineOfOwnDevice ==
    pc = "handled" =>
        /\ Len(routines) <= 1
        /\ \A i \in 1..Len(routines) : RoutineDevice(routines[i]) = msg.source
        /\ (OwnRoutine(msg.source, msg.type) = <<>> => sink = <<>>)

\* C4: for an error-log frame the sink holds exactly one ErrorLogEntry for every
\* multiple s of the record size with offset <= s and s + size <= offset + len,
\* in increasing order of s, each with index s / size and the frame's type.
AlignedRecords(m) ==
    {s \in 0..(m.offset + Len(m.data)) :
        s % ErrorRecordSize = 0 /\ InWindow(m, s, ErrorRecordSize)}

ErrorFrame ==
    /\ FullHeader
    /\ msg.source = addressUBA
    /\ msg.type \in {16, 17}
    /\ ~BitSet(msg.dest, 7)

C4_ErrorLogWindowing ==
    (pc = "handled" /\ ErrorFrame) =>
        /\ ~crashed
        /\ Len(sink) = Cardinality(AlignedRecords(msg))
        /\ \A k \in 1..Len(sink) :
              /\ sink[k].type = "Fehler"
              /\ sink[k].reading = "Error"
              /\ Len(sink[k].v) = 2 + ErrorRecordSize
              /\ sink[k].v[1] = msg.type
              /\ sink[k].v[2] * ErrorRecordSize \in AlignedRecords(msg)
              /\ SubSeq(sink[k].v, 3, 2 + ErrorRecordSize)
                   = LogicalBytes(msg, sink[k].v[2] * ErrorRecordSize, ErrorRecordSize)
        /\ \A k \in 1..(Len(sink) - 1) : sink[k].v[2] < sink[k + 1].v[2]

\* C4 witness: a window that starts inside a record and covers the next one
C4_MidRecordWindowEmits ==
    /\ pc = "handled"
    /\ ErrorFrame
    /\ msg.offset % ErrorRecordSize # 0
    /\ Len(sink) = 1
    /\ sink[1].v[2] = (msg.offset \div ErrorRecordSize) + 1

\* C6: handle() emits nothing for a raw frame of fewer than 4 bytes, for one
\* whose source, dest and type are all 0, and for one with bit 7 of dest set;
\* a frame of fewer than 4 bytes gets an all-zero header.
C6_DiscardedFramesEmitNothing ==
    /\ (pc \in {"constructed", "handled"} /\ Len(raw) < 4) =>
           (msg.source = 0 /\ msg.dest = 0 /\ msg.type = 0 /\ msg.offset = 0)
    /\ (pc = "handled" /\ (\/ Len(raw) < 4
                           \/ (raw[1] = 0 /\ raw[2] = 0 /\ raw[3] = 0)
                           \/ BitSet(raw[2], 7))) =>
           (sink = <<>> /\ routines = <<>> /\ reads = {})

\* C6 witness: a polling request that would decode to values has been handled
C6_PollHandled ==
    /\ pc = "handled"
    /\ FullHeader
    /\ BitSet(raw[2], 7)
    /\ raw[1] = addressUBA /\ raw[3] = 24 /\ raw[4] = 0 /\ Len(raw) >= 7
    /\ sink = <<>>

\* C7: for a fast-monitor frame (source UBA, dest 0, type 0x18) with offset 0
\* the sink holds exactly the fields with o + w <= n, in the routine's order;
\* the frame 08 00 18 00 5A 01 F4 gives target 90.0 then actual 50.0.
ScenarioFrame == <<8, 0, 24, 0, 90, 1, 244>>

ScenarioValues ==
    << [type |-> "SollTemp", subtype |-> "Kessel", reading |-> "Numeric", v |-> <<90, 1>>],
       [type |-> "IstTemp", subtype |-> "Kessel", reading |-> "Numeric", v |-> <<500, 10>>] >>

C7_FastMonitorAtOffsetZero ==
    (/\ pc = "handled" /\ FullHeader
     /\ msg.source = addressUBA /\ msg.dest = 0 /\ msg.type = 24 /\ msg.offset = 0) =>
        /\ ~crashed
        /\ sink = ExpectedFrom(FieldTable("parseUBAMonitorFastMessage"), msg, 1)
        /\ (raw = ScenarioFrame => sink = ScenarioValues)

\* C7 witness: the scenario frame has been handled and gave its two values
C7_ScenarioDecoded ==
    pc = "handled" /\ raw = ScenarioFrame /\ sink = ScenarioValues

\* C10: every value a parse routine emits for a field at logical offset o of
\* width w is computed from payload[o - offset] .. payload[o - offset + w - 1].
\* (Stated for the frames whose reads all stay inside the payload; the others
\* are the matter of C1.)
ComputedFromItsBytes(value, tables) ==
    \/ /\ value.reading = "Error"
       /\ InWindow(msg, value.v[2] * ErrorRecordSize, ErrorRecordSize)
       /\ SubSeq(value.v, 3, Len(value.v))
            = LogicalBytes(msg, value.v[2] * ErrorRecordSize, ErrorRecordSize)
    \/ /\ value.reading = "SystemTime"
       /\ InWindow(msg, 0, SystemTimeRecordSize)
       /\ value.v = LogicalBytes(msg, 0, SystemTimeRecordSize)
    \/ \E t \in tables : \E k \in 1..Len(t) :
          /\ t[k].type = value.type
          /\ t[k].subtype = value.subtype
          /\ InWindow(msg, t[k].o, t[k].w)
          /\ value = ExpectedValue(t[k], msg)

C10_ValuesFromWindowBytes ==
    (pc = "handled" /\ ~crashed /\ \A i \in reads : InBounds(msg, i)) =>
        \A i \in 1..Len(sink) :
            ComputedFromItsBytes(sink[i], {FieldTable(routines[j]) : j \in 1..Len(routines)})

-----------------------------------------------------------------------------
(* Claims about the numeric constructor, under SpecNum *)

\* C5: for every width 1..4 the int the numeric constructor computes is the
\* two's-complement signed value of the bytes.
C5_NumeratorIsTwosComplement ==
    npc = "built" => nval = SignedBE(nin)

-----------------------------------------------------------------------------
(* Claims about encoding, under SpecEnc *)

\* C3: getSendData() returns [d, type, offset] followed by the payload, bit 7 of
\* d being set iff expectResponse; prefixing the source byte and decoding gives
\* back (dest & 0x7f, type, offset, payload) and a dest bit 7 equal to
\* expectResponse.
C3_EncodeRoundTrip ==
    /\ epc \in {"sent", "received"} =>
          /\ Len(wire) = 3 + Len(eargs.data)
          /\ wire[1] % 128 = eargs.dest % 128
          /\ BitSet(wire[1], 7) <=> eargs.expectResponse
          /\ wire[2] = eargs.type
          /\ wire[3] = eargs.offset
          /\ SubSeq(wire, 4, Len(wire)) = eargs.data
    /\ epc = "received" =>
          /\ emsg.dest % 128 = eargs.dest % 128
          /\ BitSet(emsg.dest, 7) <=> eargs.expectResponse
          /\ emsg.type = eargs.type
          /\ emsg.offset = eargs.offset
          /\ emsg.data = eargs.data

-----------------------------------------------------------------------------
(* Claims about the connection, under SpecConn and SpecConnFair *)

Seqs == 1..(2 * MaxLines)

Count(kind, k) == Cardinality({i \in 1..Len(events) : events[i] = <<kind, k>>})

TimeoutResponses == Cardinality({i \in 1..Len(Responses) : Responses[i] = "ERR timeout"})
TimeoutEvents    == Cardinality({i \in 1..Len(events) : events[i][1] = "timeout"})

\* the deadline of the awaited request fires, no reply having come before it
ExpiryOfCurrent ==
    /\ waiting
    /\ counter \in timers
    /\ counter \notin timers'
    /\ replies' = replies

\* C8: a response-expecting command that gets no matching bus reply before the
\* deadline makes the connection write exactly one `ERR timeout`, clear its
\* waiting flag, and accept and send the command that follows.
C8_TimeoutOnceThenIdle ==
    /\ [](TimeoutResponses = TimeoutEvents /\ \A k \in Seqs : Count("timeout", k) <= 1)
    /\ [][ExpiryOfCurrent =>
            /\ out' = out \o <<"ERR timeout", "\n">>
            /\ ~waiting'
            /\ Count("timeout", counter) = 0]_vars
    /\ \A k \in Seqs :
          (waiting /\ counter = k /\ k \notin replies)
              ~> (~waiting /\ Count("timeout", k) = 1 /\ Count("reply", k) = 0)
    /\ \A n \in 0..MaxLines :
          (~waiting /\ lines # <<>> /\ Head(lines) = "query" /\ Len(sent) = n)
              ~> (Len(sent) = n + 1 /\ sent[n + 1][1] = "query")

\* C8 witness: the first request timed out and the command after it was sent
C8_TimedOutThenSentNext ==
    /\ events = <<<<"timeout", 1>>>>
    /\ out = <<"ERR timeout", "\n">>
    /\ Len(sent) = 2
    /\ sent[2] = <<"query", 3>>
    /\ waiting

\* a timer or a reply of a request that is not the awaited one is taken
StaleTimerStep ==
    \E k \in timers : k \notin timers' /\ (k # counter \/ ~waiting)
StaleReplyStep ==
    \E k \in replies : k \notin replies' /\ (k # counter \/ ~waiting)

\* C9: a timer expiry or a bus reply that belongs to a request other than the
\* current one writes no response and leaves the waiting flag alone; each
\* request is resolved by at most one of reply and timeout.
C9_StaleIsNoOp ==
    /\ [][(StaleTimerStep \/ StaleReplyStep) =>
            (out' = out /\ waiting' = waiting /\ counter' = counter)]_vars
    /\ [](\A k \in Seqs : Count("reply", k) + Count("timeout", k) <= 1)

\* C9 witness: while the second request is awaited, the late reply to the first
\* (timed-out) request has been dropped
C9_StaleDropped ==
    /\ waiting
    /\ counter = 3
    /\ events = << <<"timeout", 1>>, <<"stale reply", 1>> >>
    /\ out = <<"ERR timeout", "\n">>

=============================================================================
